---- MODULE Spec2Model ----
(***************************************************************************)
(* Model of modules/text_generation.py: the session guard around           *)
(* _generate_reply (generate_reply, generate_reply_token), the streaming   *)
(* loop of _generate_reply with its update throttle, the two generation    *)
(* routines it dispatches to (generate_reply_HF, generate_reply_custom),   *)
(* and the stop-string matcher apply_stopping_strings.                     *)
(*                                                                         *)
(* Text is a sequence of one-character strings.  Time is counted in ticks  *)
(* of 1/TicksPerSecond second.  A request is one call of an entry point;   *)
(* its consumer drives the returned generator (Call, Resume, Close).       *)
(***************************************************************************)
EXTENDS Integers, Sequences, FiniteSets, TLC

\* ------------------------------------------------------------ bounds
NumRequests == 2        \* concurrent requests
MaxClock == 2           \* the clock stops advancing here
MaxNewTokens == 1       \* tokens the backend generates at most
MaxLen == 3             \* longest text given to the matcher
MaxStopLen == 4          \* longest stop string given to the matcher
MaxStops == 2           \* longest stop-string list given to the matcher
MaxStopChars == 6        \* most characters the stop strings of a list have together

\* ------------------------------------------------------------ constants
TicksPerSecond == 24    \* clock resolution: 1/24 s (line 124) is 1 tick
UpdatesPerSecond == 24  \* 0.041666666666666664 = 1/24 (lines 124, 151)
Window == TicksPerSecond \div UpdatesPerSecond

Requests == 1..NumRequests
Free == 0
Alphabet == {"a", "b"}
Entries == {"generate_reply", "generate_reply_token"}
CustomClasses == {"LlamaCppModel", "RWKVModel", "ExllamaModel", "Exllamav2Model", "CtransformersModel"}
\* shared.model's class name, "None" when no model is loaded
ModelKinds == {"None", "LlamaCppModel", "LlamaForCausalLM"}
\* state['seed'] as the caller may supply it: a number (for -1 line 296 draws
\* one, so 42 stands for it too) or a text that is no number
Seeds == {"42", "abc"}
\* the stopping_strings argument as the caller supplies it.  No statement of
\* _generate_reply reads the argument (lines 83-85 are commented out), so one
\* non-empty value stands for every value.
StopArgs == {<< <<"b">> >>}
\* state['max_tokens_second'] as the caller may supply it
Caps == {0, 24}
NoCount == -1
EmptyText == << >>
question == <<"a">>

Max(a, b) == IF a >= b THEN a ELSE b
Min(a, b) == IF a <= b THEN a ELSE b

\* ------------------------------------------------------------ text
\* All texts over Alphabet of length at most n.
RECURSIVE TextsUpTo(_)
TextsUpTo(n) ==
    IF n = 0 THEN {EmptyText}
    ELSE LET shorter == TextsUpTo(n - 1)
         IN  shorter \cup {Append(t, c) : t \in {u \in shorter : Len(u) = n - 1}, c \in Alphabet}

\* Python's reply.find(string): index (from 0) of the first occurrence, -1 if none.
Find(reply, string) ==
    LET hits == {i \in 0..(Len(reply) - Len(string)) :
                    SubSeq(reply, i + 1, i + Len(string)) = string}
    IN  IF hits = {} THEN -1 ELSE CHOOSE i \in hits : \A k \in hits : i <= k

Contains(reply, string) == Find(reply, string) # -1

\* Python's reply[:idx]
Prefix(reply, idx) == SubSeq(reply, 1, Min(idx, Len(reply)))
\* Python's reply[-j:] for j >= 1: the last j characters, all of reply when shorter
Suffix(reply, j) == SubSeq(reply, Max(1, Len(reply) - j + 1), Len(reply))
\* Python's reply[:-j] for j >= 1
DropSuffix(reply, j) == SubSeq(reply, 1, Max(0, Len(reply) - j))

\* lines 313-318: the first stop string, in list order, that occurs in reply (0: none)
FirstFound(reply, strings) ==
    LET found == {k \in 1..Len(strings) : Find(reply, strings[k]) # -1}
    IN  IF found = {} THEN 0 ELSE CHOOSE k \in found : \A m \in found : k <= m

\* lines 324-327: the j, tried from len(string) - 1 down to 1, at which the inner loop breaks (0: none)
TailMatch(reply, string) ==
    LET js == {j \in 1..(Len(string) - 1) : Suffix(reply, j) = Prefix(string, j)}
    IN  IF js = {} THEN 0 ELSE CHOOSE j \in js : \A k \in js : j >= k

\* a matcher that applies the last stop string with a tail match
FirstTail_Last(reply, strings) ==
    LET tails == {k \in 1..Len(strings) :
                    \E j \in 1..(Len(strings[k]) - 1) : Suffix(reply, j) = Prefix(strings[k], j)}
    IN  IF tails = {} THEN 0 ELSE CHOOSE k \in tails : \A m \in tails : k >= m

\* lines 323-331: the first stop string, in list order, with a tail match (0: none)
FirstTail(reply, strings) ==
    LET tails == {k \in 1..Len(strings) : TailMatch(reply, strings[k]) # 0}
    IN  IF tails = {} THEN 0 ELSE CHOOSE k \in tails : \A m \in tails : k <= m

apply_stopping_strings(reply, strings) ==
    LET k == FirstFound(reply, strings)
        t == FirstTail(reply, strings)
    IN  IF k # 0
        THEN [reply |-> Prefix(reply, Find(reply, strings[k])), stop_found |-> TRUE]
        ELSE IF t # 0
        THEN [reply |-> DropSuffix(reply, TailMatch(reply, strings[t])), stop_found |-> FALSE]
        ELSE [reply |-> reply, stop_found |-> FALSE]

\* ------------------------------------------------------------ tokenizer
\* shared.tokenizer is an external collaborator: one token per character.
TokenIds == {1, 2}
TokenOf(c) == IF c = "a" THEN 1 ELSE 2
CharOf(i) == IF i = 1 THEN "a" ELSE "b"
encode(prompt) == [i \in 1..Len(prompt) |-> TokenOf(prompt[i])]
decode(output_ids) == [i \in 1..Len(output_ids) |-> CharOf(output_ids[i])]

RECURSIVE TokensUpTo(_)
TokensUpTo(n) ==
    IF n = 0 THEN {<< >>}
    ELSE LET shorter == TokensUpTo(n - 1)
         IN  shorter \cup {Append(t, i) : t \in {u \in shorter : Len(u) = n - 1}, i \in TokenIds}

\* Python's output_ids[-n:]: the last n items for n >= 1, every item for n = 0
LastN(output_ids, n) ==
    IF n = 0 THEN output_ids
    ELSE SubSeq(output_ids, Max(1, Len(output_ids) - n + 1), Len(output_ids))

get_reply_from_output_ids(output_ids, input_ids, is_seq2seq, is_return_token_cnt) ==
    LET new_tokens == IF is_seq2seq THEN Len(output_ids) ELSE Len(output_ids) - Len(input_ids)
        reply == IF is_seq2seq THEN decode(output_ids) ELSE decode(LastN(output_ids, new_tokens))
    IN  [text |-> reply, cnt |-> IF is_return_token_cnt THEN new_tokens ELSE NoCount]

\* ------------------------------------------------------------ state
VARIABLES
    generation_lock,    \* shared.generation_lock: Free or the request holding it
    stop_everything,    \* shared.stop_everything
    clock,              \* time.time(), in ticks
    pc,                 \* where each request's generator stands
    entry,              \* the entry point each request was made through
    args,               \* the arguments of each request
    state,              \* the caller's GenerationState mapping of each request
    state_copy,         \* the deep copy _generate_reply makes of it (line 98)
    frame,              \* the locals of _generate_reply
    gen,                \* the generator generate_func returned
    out,                \* what each request's consumer has received
    offers,             \* the replies generate_func has handed to the loop
    log,                \* what each request wrote to the server's log
    error,              \* the exception each request raised into its consumer
    history,            \* whether what an ended request left behind stays in the state
    mText, mStops, mFirst, mSecond, mPhase, \* the matcher applied on its own
    mGrown              \* the text one character longer, and the matcher's result for it

reqVars == <<generation_lock, stop_everything, clock, pc, entry, args, state, state_copy,
             frame, gen, out, offers, log, error, history>>
matcherVars == <<mText, mStops, mFirst, mSecond, mPhase, mGrown>>
vars == <<reqVars, matcherVars>>

NoState == [stream |-> FALSE, max_tokens_second |-> 0, skip_special_tokens |-> FALSE,
            seed |-> "42"]
NoArgs == [is_chat |-> FALSE, stopping_strings |-> << >>, model |-> "None", supplied |-> NoState]
NoFrame == [func |-> "none", reply |-> EmptyText, new_token |-> 0, last_update |-> 0,
            is_stream |-> FALSE, stop_found |-> FALSE, copied |-> FALSE, is_seq2seq |-> FALSE]
NoGen == [gpc |-> "none", failed |-> FALSE, produced |-> 0]
NoResult == [reply |-> EmptyText, stop_found |-> FALSE]
NoGrown == [text |-> EmptyText, result |-> NoResult]

\* lines 82-85: the stop strings _generate_reply applies
all_stop_strings == << >>

ReqInit ==
    /\ generation_lock = Free
    /\ stop_everything = FALSE
    /\ clock = 0
    /\ pc = [r \in Requests |-> "new"]
    /\ entry = [r \in Requests |-> "generate_reply"]
    /\ args = [r \in Requests |-> NoArgs]
    /\ state = [r \in Requests |-> NoState]
    /\ state_copy = [r \in Requests |-> NoState]
    /\ frame = [r \in Requests |-> NoFrame]
    /\ gen = [r \in Requests |-> NoGen]
    /\ out = [r \in Requests |-> << >>]
    /\ offers = [r \in Requests |-> << >>]
    /\ log = [r \in Requests |-> {}]
    /\ error = [r \in Requests |-> "none"]

MatcherIdle ==
    /\ mText = EmptyText
    /\ mStops = << >>
    /\ mFirst = NoResult
    /\ mSecond = NoResult
    /\ mGrown = NoGrown
    /\ mPhase = "idle"

Init == ReqInit /\ MatcherIdle /\ history = FALSE

\* ------------------------------------------------------------ session guard
\* a lock that does not make acquire() wait
CanAcquire_NoWait(r) == TRUE

\* line 40, line 49: acquire() returns only when the lock is free
CanAcquire(r) == generation_lock = Free

\* a release placed after the loop instead of in a finally clause
LockAfterEnd_ExhaustedOnly(r, how) == IF how = "exhausted" THEN Free ELSE generation_lock

\* lines 44-45, 55-56: the finally clause releases on every way out
\* how: "exhausted", "closed" or "raised"
LockAfterEnd(r, how) == Free

\* lines 42-45 against 51-56: generate_reply lets an exception of _generate_reply
\* reach its caller; generate_reply_token prints it and ends
ExceptionOutcome(e) == IF e = "generate_reply_token" THEN "done" ELSE "raised"

\* The consumer calls next() for the first time: the entry point runs to acquire().
Call(r) ==
    /\ pc[r] = "new"
    /\ \A q \in Requests : q < r => pc[q] # "new"   \* requests are numbered as they are made
    /\ \E e \in Entries : entry' = [entry EXCEPT ![r] = e]
    /\ pc' = [pc EXCEPT ![r] = "waiting"]
    /\ UNCHANGED <<generation_lock, stop_everything, clock, args, state, state_copy,
                   frame, gen, out, offers, log, error, matcherVars, history>>

\* acquire() returns; the arguments are first read from here on.  The model that
\* is loaded and the seed are decided where _generate_reply reads them (Enter).
Acquire(r) ==
    /\ pc[r] = "waiting"
    /\ CanAcquire(r)
    /\ generation_lock' = r
    /\ \E is_chat \in BOOLEAN, stops \in StopArgs, stream \in BOOLEAN, cap \in Caps :
         LET st == [NoState EXCEPT !.stream = stream, !.max_tokens_second = cap]
         IN  /\ args' = [args EXCEPT ![r] = [NoArgs EXCEPT !.is_chat = is_chat,
                                                            !.stopping_strings = stops,
                                                            !.supplied = st]]
             /\ state' = [state EXCEPT ![r] = st]
    /\ pc' = [pc EXCEPT ![r] = "entered"]
    /\ UNCHANGED <<stop_everything, clock, entry, state_copy, frame, gen, out, offers,
                   log, error, matcherVars, history>>

\* A request ends: the finally clause runs and the generators are discarded.
\* Without history the arguments of the call and the record of what was
\* yielded go with them and only what was raised into the consumer stays; with
\* history everything stays as the request left it.
\* a and st: the arguments and the caller's mapping as the request leaves them
EndRequestWith(r, how, endpc, a, st) ==
    /\ generation_lock' = LockAfterEnd(r, how)
    /\ pc' = [pc EXCEPT ![r] = endpc]
    /\ IF history
       THEN /\ args' = [args EXCEPT ![r] = a]
            /\ state' = [state EXCEPT ![r] = st]
            /\ UNCHANGED <<entry, state_copy, frame, gen, out, offers, log>>
       ELSE /\ entry' = [entry EXCEPT ![r] = "generate_reply"]
            /\ args' = [args EXCEPT ![r] = NoArgs]
            /\ state' = [state EXCEPT ![r] = NoState]
            /\ state_copy' = [state_copy EXCEPT ![r] = NoState]
            /\ frame' = [frame EXCEPT ![r] = NoFrame]
            /\ gen' = [gen EXCEPT ![r] = NoGen]
            /\ out' = [out EXCEPT ![r] = << >>]
            /\ offers' = [offers EXCEPT ![r] = << >>]
            /\ log' = [log EXCEPT ![r] = {}]

EndRequest(r, how, endpc) == EndRequestWith(r, how, endpc, args[r], state[r])

\* ------------------------------------------------------------ _generate_reply
\* line 295: int(seed) raises for a seed that is no number
IntOk(seed) == seed # "abc"

\* a throttle that lets an update pass exactly 1/24 s after the last one
PassesThrottle_AtLeast(cur_time, last_update) == cur_time - last_update >= Window

\* lines 124, 151: the update passes the 24-per-second throttle
PassesThrottle(cur_time, last_update) == cur_time - last_update > Window

\* a loop that waits out the rest of the 1/24 s window when no cap is set
SleepTime_Uncapped(is_stream, cap, cur_time, last_update) ==
    IF is_stream THEN Max(0, Window - (cur_time - last_update)) ELSE 0

\* lines 114-118, 141-145: how long the loop sleeps before it emits, which it
\* does under a tokens-per-second cap only
SleepTime(is_stream, cap, cur_time, last_update) ==
    IF is_stream /\ cap > 0
    THEN Max(0, (TicksPerSecond \div cap) - (cur_time - last_update))
    ELSE 0

\* a loop that does not ask whether the request streams
EmitsInLoop_Always(is_stream, cap, cur_time, last_update) ==
    cap > 0 \/ PassesThrottle(cur_time, last_update)

\* lines 110-126, 137-153: only a streaming request yields inside the loop,
\* under a cap every time, else when the throttle lets the update pass
EmitsInLoop(is_stream, cap, cur_time, last_update) ==
    is_stream /\ (cap > 0 \/ PassesThrottle(cur_time, last_update))

\* lines 128, 155: the loop is left
BreakLoop(stop_found, max_tokens_second, stop) ==
    stop_found \/ (max_tokens_second > 0 /\ stop)

\* the mapping the name `state` of _generate_reply refers to after line 98
LocalState(r) == IF frame[r].copied THEN state_copy[r] ELSE state[r]

Emission(text, cnt, kind) == [text |-> text, cnt |-> cnt, kind |-> kind]

\* An exception leaves _generate_reply: lines 44-45, or 53-56.
EscapesWith(r, exc, a, st) ==
    /\ EndRequestWith(r, "raised", ExceptionOutcome(entry[r]), a, st)
    /\ error' = [error EXCEPT ![r] = IF entry[r] = "generate_reply_token" THEN @ ELSE exc]

Escapes(r, exc) == EscapesWith(r, exc, args[r], state[r])

\* lines 60-104 (132): from the first statement of _generate_reply to the call of
\* generate_func.  No extension is loaded: apply_extensions returns None for
\* 'custom_generate_reply' and its argument for 'state', 'input' and 'output'.
Enter(r) ==
    /\ pc[r] = "entered"
    /\ \E model \in ModelKinds, seed \in Seeds, is_seq2seq \in BOOLEAN :
        LET \* the arguments and the mapping, with what lines 65 and 92 have read
            a0 == [args[r] EXCEPT !.model = model]
            a == [a0 EXCEPT !.supplied.seed = seed]
            st == [state[r] EXCEPT !.seed = seed]
        IN
        IF model = "None"
        THEN \* lines 65-68; line 51 cannot unpack '' into (result, new_token)
             /\ stop_everything' = stop_everything
             /\ IF entry[r] = "generate_reply_token"
                THEN /\ EndRequestWith(r, "raised", ExceptionOutcome(entry[r]), a0, state[r])
                     /\ error' = error
                ELSE /\ pc' = [pc EXCEPT ![r] = "yield_nomodel"]
                     /\ out' = [out EXCEPT ![r] = Append(@, Emission(EmptyText, NoCount, "nomodel"))]
                     /\ log' = [log EXCEPT ![r] = @ \cup {"no_model"}]
                     /\ args' = [args EXCEPT ![r] = a0]
                     /\ UNCHANGED <<generation_lock, entry, state, state_copy, frame,
                                    gen, offers, error>>
        ELSE \* line 90
             /\ stop_everything' = FALSE
             /\ IF ~IntOk(seed)
                THEN \* line 92
                     EscapesWith(r, "ValueError", a, st)
                ELSE IF model \in CustomClasses
                THEN \* lines 104, 132: generate_reply_custom (line 455) takes no
                     \* is_return_token_cnt
                     EscapesWith(r, "TypeError", a, st)
                ELSE LET copied == Len(all_stop_strings) > 0 /\ ~st.stream
                     IN  \* lines 93-102
                         /\ IF copied
                            THEN /\ state_copy' = [state_copy EXCEPT ![r] =
                                        [st EXCEPT !.stream = TRUE, !.max_tokens_second = 0]]
                                 /\ state' = [state EXCEPT ![r] = st]
                            ELSE /\ state' = [state EXCEPT ![r] =
                                        [st EXCEPT !.max_tokens_second = 0]]
                                 /\ state_copy' = state_copy
                         /\ args' = [args EXCEPT ![r] = a]
                         /\ pc' = [pc EXCEPT ![r] = "loop"]
                         /\ frame' = [frame EXCEPT ![r] =
                                [func |-> "HF", reply |-> EmptyText, new_token |-> 0,
                                 last_update |-> -TicksPerSecond,
                                 is_stream |-> st.stream, stop_found |-> FALSE,
                                 copied |-> copied, is_seq2seq |-> is_seq2seq]]
                         /\ gen' = [gen EXCEPT ![r] = [gpc |-> "start", failed |-> FALSE, produced |-> 0]]
                         /\ UNCHANGED <<generation_lock, entry, out, offers, log, error>>
    /\ UNCHANGED <<clock, matcherVars, history>>

\* lines 105-129, 133-156: one reply handed to the loop by generate_func
Offer(r, item) ==
    LET res == apply_stopping_strings(item.text, all_stop_strings)
        is_token == entry[r] = "generate_reply_token"
        cap == LocalState(r).max_tokens_second
        cur_time == clock
        slept == cur_time + SleepTime(frame[r].is_stream, cap, cur_time, frame[r].last_update)
        emit == EmitsInLoop(frame[r].is_stream, cap, cur_time, frame[r].last_update)
    IN  /\ slept <= MaxClock
        /\ clock' = slept
        /\ frame' = [frame EXCEPT ![r].reply = res.reply,
                                  ![r].stop_found = res.stop_found,
                                  ![r].new_token = IF is_token THEN item.cnt ELSE @,
                                  ![r].last_update = IF emit THEN slept ELSE @]
        /\ offers' = [offers EXCEPT ![r] = Append(@,
                        [t |-> cur_time, fwd |-> emit,
                         cancel_seen |-> ~emit /\ stop_everything])]
        /\ IF emit
           THEN /\ out' = [out EXCEPT ![r] = Append(@,
                            Emission(res.reply, IF is_token THEN item.cnt ELSE NoCount, "partial"))]
                /\ pc' = [pc EXCEPT ![r] = "yield_loop"]
           ELSE /\ out' = out
                /\ pc' = [pc EXCEPT ![r] =
                            IF BreakLoop(res.stop_found, cap, stop_everything)
                            THEN "final" ELSE "loop"]

\* generate_reply_HF writes to the mapping it was given: `state` on line 132,
\* `state_tmp` (the caller's own) on line 104
HFWrite(r, fields) ==
    IF frame[r].copied /\ entry[r] = "generate_reply"
    THEN /\ state_copy' = [state_copy EXCEPT ![r] = fields @@ @]
         /\ state' = state
    ELSE /\ state' = [state EXCEPT ![r] = fields @@ @]
         /\ state_copy' = state_copy

\* lines 408-412: generate_reply_HF starts with the empty placeholder
HasPlaceholder(r) == ~args[r].is_chat /\ ~frame[r].is_seq2seq

\* generate_reply_HF without its except clause
HFCatches_Not == FALSE

\* lines 446-447: an exception of the backend call is caught and its trace printed
HFCatches == TRUE

\* The loop asks generate_reply_HF (lines 336-452) for its next reply.  Line 340
\* sets state['stream'] to False, so line 415 always takes the blocking call.
LoopStep(r) ==
    /\ pc[r] = "loop"
    /\ frame[r].func = "HF"
    /\ LET is_token == entry[r] = "generate_reply_token"
           placeholder == HasPlaceholder(r)
           input_ids == encode(question)
       IN  \/ \* lines 338-412: the placeholder
              /\ gen[r].gpc = "start"
              /\ placeholder
              /\ HFWrite(r, [stream |-> FALSE])
              /\ gen' = [gen EXCEPT ![r].gpc = "generate"]
              /\ Offer(r, [text |-> EmptyText, cnt |-> IF is_token THEN 0 ELSE NoCount])
              /\ UNCHANGED <<generation_lock, entry, args, log, error>>
           \/ \* lines 415-424: the blocking call returns the whole output
              /\ gen[r].gpc = "generate" \/ (gen[r].gpc = "start" /\ ~placeholder)
              /\ \E new_ids \in TokensUpTo(MaxNewTokens) :
                    LET output == IF frame[r].is_seq2seq THEN new_ids ELSE input_ids \o new_ids
                    IN  /\ Offer(r, get_reply_from_output_ids(output, input_ids,
                                                               frame[r].is_seq2seq, is_token))
                        /\ gen' = [gen EXCEPT ![r].gpc = "finish", ![r].produced = Len(new_ids)]
              /\ HFWrite(r, [stream |-> FALSE, skip_special_tokens |-> TRUE])
              /\ UNCHANGED <<generation_lock, entry, args, log, error>>
           \/ \* line 419 raises
              /\ gen[r].gpc = "generate" \/ (gen[r].gpc = "start" /\ ~placeholder)
              /\ IF HFCatches
                 THEN /\ HFWrite(r, [stream |-> FALSE])
                      /\ pc' = [pc EXCEPT ![r] = "final"]
                      /\ gen' = [gen EXCEPT ![r] = [gpc |-> "ended", failed |-> TRUE, produced |-> 0]]
                      /\ log' = [log EXCEPT ![r] = @ \cup {"traceback"}]
                      /\ UNCHANGED <<generation_lock, entry, args, frame, out, offers, error>>
                 ELSE Escapes(r, "Exception")
              /\ clock' = clock
           \/ \* lines 448-452: the generator ends
              /\ gen[r].gpc = "finish"
              /\ pc' = [pc EXCEPT ![r] = "final"]
              /\ gen' = [gen EXCEPT ![r].gpc = "ended"]
              /\ UNCHANGED <<generation_lock, clock, entry, args, state, state_copy, frame,
                             out, offers, log, error>>
    /\ UNCHANGED <<stop_everything, matcherVars, history>>

\* lines 158-163: the final value
Final(r) ==
    /\ pc[r] = "final"
    /\ out' = [out EXCEPT ![r] = Append(@,
                Emission(frame[r].reply,
                         IF entry[r] = "generate_reply_token" THEN frame[r].new_token ELSE NoCount,
                         "final"))]
    /\ pc' = [pc EXCEPT ![r] = "yield_final"]
    /\ UNCHANGED <<generation_lock, stop_everything, clock, entry, args, state, state_copy,
                   frame, gen, offers, log, error, matcherVars, history>>

\* The consumer calls next() on a generator suspended at a yield.
Resume(r) ==
    /\ \/ /\ pc[r] = "yield_loop"
          /\ pc' = [pc EXCEPT ![r] =
                      IF BreakLoop(frame[r].stop_found, LocalState(r).max_tokens_second,
                                   stop_everything)
                      THEN "final" ELSE "loop"]
          /\ offers' = [offers EXCEPT ![r][Len(offers[r])].cancel_seen = stop_everything]
          /\ UNCHANGED <<generation_lock, entry, args, state, state_copy, frame, gen, out, log>>
       \/ /\ pc[r] \in {"yield_nomodel", "yield_final"}
          /\ EndRequest(r, "exhausted", "done")
    /\ UNCHANGED <<stop_everything, clock, error, matcherVars, history>>

\* The consumer closes a generator suspended at a yield: GeneratorExit is no
\* Exception, so line 53 does not catch it, and the finally clauses run.
Close(r) ==
    /\ pc[r] \in {"yield_loop", "yield_nomodel", "yield_final"}
    /\ EndRequest(r, "closed", "closed")
    /\ UNCHANGED <<stop_everything, clock, error, matcherVars, history>>

\* lines 307-308.  The flag is read on lines 128 and 155 only, and line 90
\* clears it, so only an event during a request's loop is counted.
stop_everything_event ==
    /\ \E r \in Requests : pc[r] \in {"loop", "yield_loop"}
    /\ stop_everything' = TRUE
    /\ UNCHANGED <<generation_lock, clock, pc, entry, args, state, state_copy, frame, gen,
                   out, offers, log, error, matcherVars, history>>

\* Time passes.  The clock is read on lines 111 and 138 only, by a streaming
\* request inside its loop, and only the time between two replies of
\* generate_func decides anything (lines 142, 151; before the first one
\* last_update is -1): that is the time counted.
Tick ==
    /\ clock < MaxClock
    /\ \E r \in Requests : pc[r] = "loop" /\ frame[r].is_stream /\ gen[r].gpc = "generate"
    /\ clock' = clock + 1
    /\ UNCHANGED <<generation_lock, stop_everything, pc, entry, args, state, state_copy,
                   frame, gen, out, offers, log, error, matcherVars, history>>

Next ==
    \/ \E r \in Requests : Call(r)
    \/ \E r \in Requests : Acquire(r)
    \/ \E r \in Requests : Enter(r)
    \/ \E r \in Requests : LoopStep(r)
    \/ \E r \in Requests : Final(r)
    \/ \E r \in Requests : Resume(r)
    \/ \E r \in Requests : Close(r)
    \/ stop_everything_event
    \/ Tick

Spec == Init /\ [][Next]_vars

\* While the lock stays free and threads are blocked in acquire() (lines 41,
\* 50), one of them gets it.
FairSpec == Spec /\ WF_vars(\E r \in Requests : Acquire(r))

\* The same program, with what each ended request did kept for comparison.
HistoryInit == ReqInit /\ MatcherIdle /\ history = TRUE
HistorySpec == HistoryInit /\ [][Next]_vars

\* ------------------------------------------------------------ the matcher alone
StopStrings == TextsUpTo(MaxStopLen) \ {EmptyText}

RECURSIVE ListsUpTo(_)
ListsUpTo(n) ==
    IF n = 0 THEN {<< >>}
    ELSE LET shorter == ListsUpTo(n - 1)
         IN  shorter \cup {Append(l, x) : l \in {u \in shorter : Len(u) = n - 1}, x \in StopStrings}

RECURSIVE Chars(_)
Chars(l) == IF l = << >> THEN 0 ELSE Len(Head(l)) + Chars(Tail(l))

MatcherInit ==
    /\ ReqInit
    /\ history = FALSE
    /\ mStops \in {l \in ListsUpTo(MaxStops) : Chars(l) <= MaxStopChars}
    /\ mText \in TextsUpTo(MaxLen)
    /\ mFirst = NoResult
    /\ mSecond = NoResult
    /\ mGrown = NoGrown
    /\ mPhase = "input"

\* apply_stopping_strings(T, S)
Apply ==
    /\ mPhase = "input"
    /\ mFirst' = apply_stopping_strings(mText, mStops)
    /\ mPhase' = "applied"
    /\ UNCHANGED <<mText, mStops, mSecond, mGrown, reqVars>>

\* apply_stopping_strings(R, S) on the text R the first call returned
Reapply ==
    /\ mPhase = "applied"
    /\ mSecond' = apply_stopping_strings(mFirst.reply, mStops)
    /\ mPhase' = "reapplied"
    /\ UNCHANGED <<mText, mStops, mFirst, mGrown, reqVars>>

\* The next iteration of the loop (lines 108, 136): generate_func has handed
\* over the text grown by one character.
Grow ==
    /\ mPhase = "applied"
    /\ Len(mText) < MaxLen
    /\ \E c \in Alphabet :
          LET longer == Append(mText, c)
          IN  mGrown' = [text |-> longer, result |-> apply_stopping_strings(longer, mStops)]
    /\ mPhase' = "grown"
    /\ UNCHANGED <<mText, mStops, mFirst, mSecond, reqVars>>

MatcherNext == Apply \/ Reapply \/ Grow

MatcherSpec == MatcherInit /\ [][MatcherNext]_vars

\* ------------------------------------------------------------ properties
\* between the acquisition of the lock and the end of the sequence
Active(r) ==
    pc[r] \in {"entered", "loop", "yield_loop", "yield_nomodel", "final", "yield_final"}
Ended(r) == pc[r] \in {"done", "closed", "raised"}

\* C1: two requests, made through either entry point, are never both past the
\* acquisition of shared.generation_lock: their periods inside _generate_reply
\* do not overlap.
C1_MutualExclusion ==
    \A r1, r2 \in Requests : (r1 # r2 /\ Active(r1)) => ~Active(r2)

\* C1 witness: one request is inside its streaming loop while a request made
\* through the other entry point is blocked in acquire().
C1_Witness ==
    \E r1, r2 \in Requests :
        /\ pc[r1] = "yield_loop"
        /\ pc[r2] = "waiting"
        /\ entry[r1] # entry[r2]

\* C2: the lock is held by a request exactly from its acquisition to the end of
\* its sequence, however the sequence ends (exhausted, closed, exception), so
\* no ended request holds it; and when callers are blocked on the slot and the
\* holder's sequence has ended, a blocked caller eventually proceeds.
C2_SlotHeldOnlyWhileActive ==
    /\ [](\A r \in Requests : Active(r) <=> generation_lock = r)
    /\ ((\E r \in Requests : pc[r] = "waiting") /\ generation_lock = Free)
          ~> (\E r \in Requests : Active(r))

\* C2 witness: one request has ended with an exception in its caller's
\* iteration, another was closed by its consumer, and the slot is free.
C2_Witness ==
    \E r1, r2 \in Requests :
        /\ pc[r1] = "raised"
        /\ pc[r2] = "closed"
        /\ generation_lock = Free

\* C3, as claimed: no text a request made with stop strings has emitted
\* contains one of its stop strings.
C3_Original ==
    \A r \in Requests : \A i \in 1..Len(out[r]) :
        \A k \in 1..Len(args[r].stopping_strings) :
            ~Contains(out[r][i].text, args[r].stopping_strings[k])

\* C4, as claimed: once the loop has reached an iteration boundary with the
\* cancellation flag set, no later reply of the backend is emitted as a
\* partial reply.
C4_Original ==
    \A r \in Requests : \A i, j \in 1..Len(offers[r]) :
        (i < j /\ offers[r][i].cancel_seen) => ~offers[r][j].fwd

\* the emissions made from inside the loop
Partials(r) == SelectSeq(out[r], LAMBDA e : e.kind = "partial")

\* C5: an exception of the backend call never reaches the caller: after it the
\* caller has the emissions made before it, then at most one terminal
\* emission, and the sequence ends without an exception.
C5_BackendErrorSwallowed ==
    \A r \in Requests :
        /\ error[r] # "Exception"
        /\ gen[r].failed =>
              /\ "traceback" \in log[r]
              /\ pc[r] \in {"final", "yield_final"}
              /\ out[r] = Partials(r) \o
                    (IF pc[r] = "yield_final"
                     THEN <<Emission(frame[r].reply,
                                     IF entry[r] = "generate_reply_token"
                                     THEN frame[r].new_token ELSE NoCount, "final")>>
                     ELSE << >>)

\* C5 witness: the backend call of a request raised after the placeholder was
\* emitted, and the request has delivered its terminal emission.
C5_Witness ==
    \E r \in Requests : gen[r].failed /\ pc[r] = "yield_final" /\ Len(out[r]) = 2

\* the stop string occurs in the text
Occurs(text, strings) == \E k \in 1..Len(strings) : Contains(text, strings[k])
\* the place of the first occurrence of any of the stop strings
FirstOccurrence(text, strings) ==
    LET places == {Find(text, strings[k]) : k \in 1..Len(strings)} \ {-1}
    IN  CHOOSE i \in places : \A j \in places : i <= j
\* the text ends with a non-empty proper prefix of one of the stop strings
EndsWithPartial(text, strings) ==
    \E k \in 1..Len(strings) : \E j \in 1..(Len(strings[k]) - 1) :
        /\ j <= Len(text)
        /\ SubSeq(text, Len(text) - j + 1, Len(text)) = SubSeq(strings[k], 1, j)

\* C6, as claimed: when a stop string occurs in T, the matcher returns
\* stopped = true and T cut at the first occurrence of a stop string, and the
\* returned text contains no stop string.
C6_Original ==
    (mPhase = "applied" /\ Occurs(mText, mStops)) =>
        /\ mFirst.stop_found
        /\ mFirst.reply = Prefix(mText, FirstOccurrence(mText, mStops))
        /\ ~Occurs(mFirst.reply, mStops)

\* C7, as claimed: when the matcher returns stopped = false, the returned text
\* does not end with a non-empty proper prefix of a stop string.
C7_Original ==
    (mPhase = "applied" /\ ~mFirst.stop_found) => ~EndsWithPartial(mFirst.reply, mStops)

\* C8, as claimed: the matcher applied to a text it returned with
\* stopped = true returns that text unchanged with stopped = false.
C8_Original ==
    (mPhase = "reapplied" /\ mFirst.stop_found) =>
        mSecond = [reply |-> mFirst.reply, stop_found |-> FALSE]

\* C9, as claimed: in a streaming request with a cap of N tokens per second
\* every reply offered to the loop is forwarded, and forwarded replies are at
\* least 1/N second apart.
C9_Original ==
    \A r \in Requests :
        (frame[r].is_stream /\ args[r].supplied.max_tokens_second > 0) =>
            /\ \A i \in 1..Len(offers[r]) : offers[r][i].fwd
            /\ \A i, j \in 1..Len(offers[r]) :
                  i < j => offers[r][j].t - offers[r][i].t
                              >= TicksPerSecond \div args[r].supplied.max_tokens_second

\* C10, as claimed: in a streaming request without a cap, of two replies
\* offered less than 1/24 s apart only the later one is forwarded.
C10_Original ==
    \A r \in Requests :
        (frame[r].is_stream /\ args[r].supplied.max_tokens_second = 0) =>
            \A i \in 1..(Len(offers[r]) - 1) :
                offers[r][i + 1].t - offers[r][i].t < Window =>
                    (~offers[r][i].fwd /\ offers[r][i + 1].fwd)

\* when the last reply before the i-th was forwarded (line 93: -1 if none was)
LastForwarded(r, i) ==
    LET earlier == {k \in 1..(i - 1) : offers[r][k].fwd}
    IN  IF earlier = {} THEN -TicksPerSecond
        ELSE offers[r][CHOOSE k \in earlier : \A m \in earlier : k >= m].t

\* C10, amended: in a streaming request without a cap, a reply is forwarded
\* from the loop exactly when it is offered more than 1/24 s after the last
\* forwarded one (the first reply always is), so of two replies offered less
\* than 1/24 s apart the later one is never forwarded once the earlier one
\* was; and when the loop has ended, the final value is emitted whatever the
\* time since the last emission.
C10_Amended ==
    \A r \in Requests :
        (frame[r].is_stream /\ args[r].supplied.max_tokens_second = 0) =>
            /\ \A i \in 1..Len(offers[r]) :
                  offers[r][i].fwd <=> offers[r][i].t - LastForwarded(r, i) > Window
            /\ \A i \in 1..(Len(offers[r]) - 1) :
                  (offers[r][i + 1].t - offers[r][i].t < Window /\ offers[r][i].fwd)
                      => ~offers[r][i + 1].fwd
            /\ pc[r] = "yield_final" =>
                  /\ Len(out[r]) = Len(Partials(r)) + 1
                  /\ out[r][Len(out[r])].kind = "final"
                  /\ out[r][Len(out[r])].text = frame[r].reply

\* C10 witness: two replies were offered less than 1/24 s apart, the earlier
\* one was forwarded, the later one was not, and the final value was emitted.
C10_Witness ==
    \E r \in Requests :
        /\ frame[r].is_stream
        /\ args[r].supplied.max_tokens_second = 0
        /\ pc[r] = "yield_final"
        /\ Len(offers[r]) = 2
        /\ offers[r][2].t - offers[r][1].t < Window
        /\ offers[r][1].fwd
        /\ ~offers[r][2].fwd
        /\ Len(out[r]) = 2
        /\ out[r][2].text # out[r][1].text

\* the texts a request's consumer has received, in order
Texts(r) == [i \in 1..Len(out[r]) |-> out[r][i].text]

\* C11, as claimed: a request made with no model loaded, through either entry
\* point, has emitted exactly one element, the empty text, when it has ended; it
\* has not raised and does not hold the lock.
C11_Original ==
    \A r \in Requests :
        (Ended(r) /\ args[r].model = "None") =>
            /\ Texts(r) = <<EmptyText>>
            /\ pc[r] # "raised"
            /\ generation_lock # r

\* C12, as claimed: a request whose seed is no integer, made with a model
\* loaded through either entry point, ends with the error raised into its
\* caller's iteration.
C12_Original ==
    \A r \in Requests :
        (Ended(r) /\ args[r].model # "None" /\ ~IntOk(args[r].supplied.seed)) =>
            /\ pc[r] = "raised"
            /\ error[r] = "ValueError"

\* what the backend and the clock did during a request: the model's kind, the
\* times at which generate_func handed over its replies, the last reply, and
\* whether the backend call raised
Situation(r) ==
    [is_seq2seq |-> frame[r].is_seq2seq,
     times |-> [i \in 1..Len(offers[r]) |-> offers[r][i].t],
     reply |-> frame[r].reply,
     failed |-> gen[r].failed]

\* C13, as claimed: a request through generate_reply_token and one through
\* generate_reply, made with the same arguments in the same situation and
\* consumed to their end, have emitted the same texts and ended the same way,
\* and every element of the former carries a count.
C13_Original ==
    \A r1, r2 \in Requests :
        ( /\ entry[r1] = "generate_reply"
          /\ entry[r2] = "generate_reply_token"
          /\ pc[r1] \in {"done", "raised"}
          /\ pc[r2] \in {"done", "raised"}
          /\ args[r1] = args[r2]
          /\ Situation(r1) = Situation(r2) ) =>
            /\ Texts(r1) = Texts(r2)
            /\ pc[r1] = pc[r2]
            /\ error[r1] = error[r2]
            /\ \A i \in 1..Len(out[r2]) : out[r2][i].cnt # NoCount

\* C20, as claimed: when a request has ended, the caller's GenerationState
\* mapping has the values the caller supplied.
C20_Original ==
    \A r \in Requests : Ended(r) => state[r] = args[r].supplied

\* C14: in a streaming request without a cap, a reply offered no more than
\* 1/24 s after the last forwarded one is not forwarded and the first reply
\* is, so forwarded replies are more than 1/24 s apart; when the loop has
\* ended the final value is emitted whatever the time since the last emission;
\* and no step of the loop lets time pass by sleeping.
C14_DefaultCadence ==
    /\ [](\A r \in Requests :
            (frame[r].is_stream /\ args[r].supplied.max_tokens_second = 0) =>
                /\ \A i \in 1..Len(offers[r]) :
                      /\ offers[r][i].t - LastForwarded(r, i) <= Window => ~offers[r][i].fwd
                      /\ i = 1 => offers[r][i].fwd
                /\ \A i, j \in 1..Len(offers[r]) :
                      (i < j /\ offers[r][i].fwd /\ offers[r][j].fwd)
                          => offers[r][j].t - offers[r][i].t > Window
                /\ pc[r] = "yield_final" =>
                      out[r] = Append(Partials(r), Emission(frame[r].reply,
                                  IF entry[r] = "generate_reply_token"
                                  THEN frame[r].new_token ELSE NoCount, "final")))
    /\ [][\A r \in Requests :
            (frame[r].is_stream /\ args[r].supplied.max_tokens_second = 0
                /\ Len(offers'[r]) > Len(offers[r])) => clock' = clock]_vars

\* C14 witness: in a streaming request without a cap the second reply was
\* offered exactly 1/24 s after the first, which was forwarded; it was not
\* forwarded, and the final value was emitted right after it.
C14_Witness ==
    \E r \in Requests :
        /\ frame[r].is_stream
        /\ args[r].supplied.max_tokens_second = 0
        /\ pc[r] = "yield_final"
        /\ Len(offers[r]) = 2
        /\ offers[r][2].t - offers[r][1].t = Window
        /\ offers[r][1].fwd
        /\ ~offers[r][2].fwd
        /\ clock = offers[r][2].t
        /\ Len(out[r]) = 2

\* the replies generate_reply_HF has handed over after the placeholder
BackendReplies(r) == Len(offers[r]) - (IF HasPlaceholder(r) THEN 1 ELSE 0)

\* C15, as claimed: when the caller asked for streaming and the backend of
\* generate_reply_HF has produced its tokens (none of them an end-of-sequence
\* id), generate_reply_HF has handed over one reply per token produced.
C15_Original ==
    \A r \in Requests :
        (args[r].supplied.stream /\ frame[r].func = "HF" /\ gen[r].gpc = "finish") =>
            BackendReplies(r) = gen[r].produced

\* C16, as claimed: a request made with a model of the custom family (and a
\* seed that is a number) has not raised when it has ended, and its caller has
\* received the backend's reply.
C16_Original ==
    \A r \in Requests :
        (Ended(r) /\ args[r].model \in CustomClasses /\ IntOk(args[r].supplied.seed)) =>
            /\ pc[r] # "raised"
            /\ Len(out[r]) >= 1

\* C17: in a request on generate_reply_HF made with stream = false, the
\* blocking call is issued once; generate_reply_HF hands over the empty
\* placeholder exactly when the request is non-chat and the model not seq2seq,
\* then, when the call has returned, exactly one reply decoded from the whole
\* output (none when the call raised); nothing is emitted from inside the
\* loop, and the caller receives exactly one emission, the final text.
C17_OneReply ==
    \A r \in Requests :
        (frame[r].func = "HF" /\ ~args[r].supplied.stream) =>
            /\ gen[r].gpc = "start" => Len(offers[r]) = 0
            /\ gen[r].gpc = "generate" =>
                  HasPlaceholder(r) /\ Len(offers[r]) = 1 /\ frame[r].reply = EmptyText
            /\ gen[r].gpc = "finish" =>
                  /\ BackendReplies(r) = 1
                  /\ Len(frame[r].reply) =
                        IF gen[r].produced = 0 /\ ~frame[r].is_seq2seq
                        THEN Len(question) ELSE gen[r].produced
            /\ gen[r].failed => BackendReplies(r) = 0
            /\ \A i \in 1..Len(offers[r]) : ~offers[r][i].fwd
            /\ pc[r] # "yield_loop"
            /\ pc[r] \in {"loop", "final"} => out[r] = << >>
            /\ pc[r] = "yield_final" =>
                  out[r] = <<Emission(frame[r].reply,
                                      IF entry[r] = "generate_reply_token"
                                      THEN frame[r].new_token ELSE NoCount, "final")>>

\* C17 witness: a non-chat request through generate_reply with stream = false on
\* a causal model: the placeholder and one reply were handed over, and the
\* caller has received one emission, the reply's text.
C17_Witness ==
    \E r \in Requests :
        /\ frame[r].func = "HF"
        /\ ~args[r].supplied.stream
        /\ entry[r] = "generate_reply"
        /\ HasPlaceholder(r)
        /\ gen[r].gpc = "ended"
        /\ ~gen[r].failed
        /\ gen[r].produced = 1
        /\ Len(offers[r]) = 2
        /\ pc[r] = "yield_final"
        /\ Len(out[r]) = 1
        /\ out[r][1].text = <<"b">>

\* the lengths j, 1 <= j < Len(s), at which the last j characters of the text
\* are the first j characters of the stop string s
TailLengths(text, s) ==
    {j \in 1..(Len(s) - 1) :
        j <= Len(text) /\ \A i \in 1..j : text[Len(text) - j + i] = s[i]}

\* C18: when no stop string occurs in T, the matcher returns stopped = false
\* and T without its last j characters, j being the largest tail length of the
\* first stop string in list order that has one; T itself when none has one.
\* Stop strings later in the list are not applied.
C18_TailTrim ==
    (mPhase = "applied" /\ ~Occurs(mText, mStops)) =>
        /\ ~mFirst.stop_found
        /\ LET ks == {k \in 1..Len(mStops) : TailLengths(mText, mStops[k]) # {}}
           IN  IF ks = {}
               THEN mFirst.reply = mText
               ELSE LET k == CHOOSE x \in ks : \A y \in ks : x <= y
                        js == TailLengths(mText, mStops[k])
                        j == CHOOSE x \in js : \A y \in js : x >= y
                    IN  mFirst.reply = SubSeq(mText, 1, Len(mText) - j)

\* C18 witness: no stop string occurs in the text; the first stop string has
\* tail lengths 1 and 2 and the second one a tail length of 1 only; the last
\* two characters were removed.
C18_Witness ==
    /\ mPhase = "applied"
    /\ Len(mStops) = 2
    /\ ~Occurs(mText, mStops)
    /\ TailLengths(mText, mStops[1]) = {1, 2}
    /\ TailLengths(mText, mStops[2]) = {1}
    /\ mFirst = [reply |-> SubSeq(mText, 1, Len(mText) - 2), stop_found |-> FALSE]

IsPrefix(a, b) == Len(a) <= Len(b) /\ SubSeq(b, 1, Len(a)) = a

====
